---- MODULE Spec2Model ----
(***************************************************************************)
(* Model of the conversion engine of mqtt-weather-provider:                *)
(*   src/src/converters.rs                 the four conversion entry points *)
(*   src/src/parsers/sw_forecast_parser.rs the 3-day forecast bulletin      *)
(*   src/src/main.rs                       the polling tasks                *)
(*                                                                         *)
(* Every conversion call is a state machine of its own: `feed' names the   *)
(* pipeline, `input' the raw document handed to it, `pc' the position of   *)
(* the call and `result' what the call ended in.  A Rust panic (a failed   *)
(* expect/unwrap/assert!, an index out of range) ends the call with the    *)
(* tag "Panic": it is not a value returned to the caller.                  *)
(*                                                                         *)
(* Text is modelled by what the code reads from it.  A date key is the     *)
(* sequence of its character codes, so that String::cmp is the plain       *)
(* lexicographic order.  A JSON string cell is a record telling which      *)
(* timestamp format it matches (and the instant it denotes) or which       *)
(* number it spells.  Floats are carried as integers (value * 100).        *)
(***************************************************************************)
EXTENDS Integers, Sequences, FiniteSets

VARIABLES
    feed,      \* the pipeline: "kp", "kp_inst", "flux", "forecast"; "tasks"
    input,     \* the raw document of the call
    pc,        \* position of the call
    result,    \* [tag, val, msg]: how the call ended
    table,     \* forecast: the bulletin table being parsed ("kp", "srs", "rb")
    dates,     \* forecast: the date keys parse_header returned
    results,   \* forecast: the local `results' vector of the storm merge
    cur,       \* forecast: the storm row the outer loop is at
    idx,       \* forecast: the column (1-based) the inner loop is at
    nrows,     \* forecast: storm rows merged so far
    owner,     \* forecast: per entry and grade, the row that last wrote it (0: none)
    covered,   \* forecast: the grades inside the range of a row merged so far
    tpc,       \* tasks: per weather source, the position of its polling task
    client,    \* tasks: the holder of the MQTT client mutex, "free" if none
    cycle,     \* tasks: per weather source, the steps of its current cycle
    converted, \* tasks: per weather source, how the conversion of the cycle ended
    sent,      \* tasks: per weather source, the payloads published in the cycle
    cause,     \* tasks: per weather source, the step that ended its task
    began      \* tasks: per weather source, whether its cycle began with a task ended

taskvars == <<tpc, client, cycle, converted, sent, cause, began>>

vars == <<feed, input, pc, result, table, dates, results, cur, idx, nrows, owner,
          covered, taskvars>>

----------------------------------------------------------------------------
(* Results of a call *)

Ok(v)      == [tag |-> "Ok",    val |-> v,    msg |-> ""]
Err(m)     == [tag |-> "Err",   val |-> <<>>, msg |-> m]
Panic(m)   == [tag |-> "Panic", val |-> <<>>, msg |-> m]
NoResult   == [tag |-> "None",  val |-> <<>>, msg |-> ""]

Min(a, b) == IF a <= b THEN a ELSE b
Last(s)   == s[Len(s)]

----------------------------------------------------------------------------
(* JSON string cells *)

\* a string matching "%Y-%m-%d %H:%M:%S%.3f": day d, hour h, minute mi, second s
TsMs(d, h, mi, s)  == [kind |-> "ts_ms",  d |-> d, h |-> h, mi |-> mi, s |-> s, v |-> 0]
\* a string matching "%Y-%m-%dT%H:%M:%S%Z"
TsIso(d, h, mi, s) == [kind |-> "ts_iso", d |-> d, h |-> h, mi |-> mi, s |-> s, v |-> 0]
\* a string spelling the decimal number v / 100
Num(v)             == [kind |-> "num",    d |-> 0, h |-> 0, mi |-> 0, s |-> 0, v |-> v]
\* any other string
Junk               == [kind |-> "junk",   d |-> 0, h |-> 0, mi |-> 0, s |-> 0, v |-> 0]

FmtKp  == "ts_ms"     \* "%Y-%m-%d %H:%M:%S%.3f"
FmtIso == "ts_iso"    \* "%Y-%m-%dT%H:%M:%S%Z"

\* NaiveDateTime::parse_from_str, += Duration::hours, format("%H:%M %d-%m-%Y"):
\* the canonical form states hour and minute first, then the day, and no seconds
convert_datetime(cell, in_format, offset_hours) ==
    IF cell.kind # in_format
    THEN Err("parsing datetime string error")
    ELSE Ok(<<(cell.h + offset_hours) % 24, cell.mi,
              cell.d + ((cell.h + offset_hours) \div 24)>>)

\* str::parse::<f32>().unwrap_or(0.0)
parse_f32_or_zero(cell) == IF cell.kind = "num" THEN cell.v ELSE 0

----------------------------------------------------------------------------
(* converter_kp: the release-cadence Kp table *)

num_elements == 7

\* KpRowRecord that fails on a Kp cell that spells no number
KpRowRecord_kp_required(item) ==
    IF Len(item) < 2
    THEN Err("error during parsing data")
    ELSE LET t == convert_datetime(item[1], FmtKp, 3)
         IN  IF t.tag # "Ok" THEN t
             ELSE IF item[2].kind # "num" THEN Err("error during parsing data")
             ELSE Ok([time_tag |-> t.val, kp |-> item[2].v])

\* let [time_tag, kp, ..] = &item[..]: one row to one KpIndex
KpRowRecord(item) ==
    IF Len(item) < 2
    THEN Err("error during parsing data")
    ELSE LET t == convert_datetime(item[1], FmtKp, 3)
         IN  IF t.tag # "Ok" THEN t
             ELSE Ok([time_tag |-> t.val, kp |-> parse_f32_or_zero(item[2])])

\* the for loop over required_data: stops at the first row that fails
RECURSIVE KpCollect(_, _, _)
KpCollect(required_data, i, kp_data) ==
    IF i > Len(required_data) THEN Ok(kp_data)
    ELSE LET r == KpRowRecord(required_data[i])
         IN  IF r.tag # "Ok" THEN r
             ELSE KpCollect(required_data, i + 1, Append(kp_data, r.val))

\* start_index with the window one element too long
start_index_one_early(len, n) == IF len > n THEN len - n - 1 ELSE 0

\* start_index of the trailing window of n elements of a vector of length len
start_index(len, n) == IF len > n THEN len - n ELSE 0

converter_kp(raw) ==
    IF ~raw.wellformed THEN Err("deserilisation error")
    ELSE IF Len(raw.rows) < 1
    THEN Panic("range start index 1 out of range for slice of length 0")
    ELSE LET data_without_header == SubSeq(raw.rows, 2, Len(raw.rows))
             start == start_index(Len(data_without_header), num_elements)
             required_data == SubSeq(data_without_header, start + 1,
                                     Len(data_without_header))
         IN  KpCollect(required_data, 1, <<>>)

----------------------------------------------------------------------------
(* Inputs of converter_kp *)

MaxKpRows == 8

KpHeaderRow == <<Junk, Junk>>

KpRowA     == <<TsMs(1, 0, 0, 0), Num(467)>>
KpRowB     == <<TsMs(1, 21, 30, 15), Junk, Num(9)>>   \* Kp cell unparsable, a third cell
KpRowShort == <<TsMs(2, 3, 0, 0)>>
KpRowBadTs == <<TsIso(2, 6, 0, 0), Num(300)>>

KpRows == {KpRowA, KpRowB, KpRowShort, KpRowBadTs}

KpTable(data) == [wellformed |-> TRUE, rows |-> <<KpHeaderRow>> \o data]
KpNoRows      == [wellformed |-> TRUE, rows |-> <<>>]
NotJson       == [wellformed |-> FALSE, rows |-> <<>>]

\* a conversion call looked at on its own: no polling task
NoTasks ==
    /\ tpc = <<>>
    /\ client = "free"
    /\ cycle = <<>>
    /\ converted = <<>>
    /\ sent = <<>>
    /\ cause = <<>>
    /\ began = <<>>

ForecastIdle ==
    /\ table = "none"
    /\ dates = <<>>
    /\ results = <<>>
    /\ cur = <<>>
    /\ idx = 0
    /\ nrows = 0
    /\ owner = <<>>
    /\ covered = {}

InitKp ==
    /\ feed = "kp"
    /\ \/ input \in {KpNoRows, NotJson}
       \/ \E n \in 0..MaxKpRows : \E data \in [1..n -> KpRows] : input = KpTable(data)
    /\ pc = "call"
    /\ result = NoResult
    /\ ForecastIdle
    /\ NoTasks

ConvertKp ==
    /\ feed = "kp"
    /\ pc = "call"
    /\ result' = converter_kp(input)
    /\ pc' = "done"
    /\ UNCHANGED <<feed, input, table, dates, results, cur, idx, nrows, owner, covered, taskvars>>

NextKp == ConvertKp

SpecKp == InitKp /\ [][NextKp]_vars

----------------------------------------------------------------------------
(* converter_kp_inst: the instantaneous Kp samples *)

\* the first element in the place of the last
last_element_first(raw_data) == raw_data[1]

\* raw_data.last(), for a vector that is not empty
last_element(raw_data) == raw_data[Len(raw_data)]

converter_kp_inst(raw) ==
    IF ~raw.wellformed THEN Err("deserilisation error")
    ELSE IF Len(raw.rows) = 0 THEN Err("got no data")
    ELSE LET last == last_element(raw.rows)
             t    == convert_datetime(last.time_tag, FmtIso, 0)
         IN  IF t.tag # "Ok" THEN t
             ELSE Ok([time_tag |-> t.val, kp |-> last.kp_index])

MaxInstSamples == 3

\* samples {time_tag, kp_index}: two in the format of the feed, one whose time_tag
\* is in the format of the release table, one whose time_tag is no timestamp
KpInstSamples ==
    {[time_tag |-> TsIso(1, 23, 55, 30), kp_index |-> 233],
     [time_tag |-> TsIso(2, 0, 1, 0),    kp_index |-> 467],
     [time_tag |-> TsMs(2, 0, 2, 0),     kp_index |-> 300],
     [time_tag |-> Junk,                 kp_index |-> 100]}

KpInstInput(samples) == [wellformed |-> TRUE, rows |-> samples]

InitKpInst ==
    /\ feed = "kp_inst"
    /\ \/ input = NotJson
       \/ \E n \in 0..MaxInstSamples : \E samples \in [1..n -> KpInstSamples] :
             input = KpInstInput(samples)
    /\ pc = "call"
    /\ result = NoResult
    /\ ForecastIdle
    /\ NoTasks

ConvertKpInst ==
    /\ feed = "kp_inst"
    /\ pc = "call"
    /\ result' = converter_kp_inst(input)
    /\ pc' = "done"
    /\ UNCHANGED <<feed, input, table, dates, results, cur, idx, nrows, owner, covered, taskvars>>

NextKpInst == ConvertKpInst

SpecKpInst == InitKpInst /\ [][NextKpInst]_vars

----------------------------------------------------------------------------
(* converter_flux: the proton flux samples *)

E10   == ">=10 MeV"
E50   == ">=50 MeV"
E100  == ">=100 MeV"
E500  == ">=500 MeV"
Bands == {E10, E50, E100, E500}

num_records == 2

EmptyFluxRecord ==
    [time_tag |-> <<>>, flux_gt10mev |-> 0, flux_gt50mev |-> 0,
     flux_gt100mev |-> 0, flux_gt500mev |-> 0]

\* flux_store with the fields of the 50 and the 100 MeV bands exchanged
flux_store_swapped(rec, item) ==
    IF item.energy = E10 THEN [rec EXCEPT !.flux_gt10mev = item.flux]
    ELSE IF item.energy = E100 THEN [rec EXCEPT !.flux_gt50mev = item.flux]
    ELSE IF item.energy = E50 THEN [rec EXCEPT !.flux_gt100mev = item.flux]
    ELSE IF item.energy = E500 THEN [rec EXCEPT !.flux_gt500mev = item.flux]
    ELSE rec

\* the if / else-if chain of the loop body: the field the sample's band selects
flux_store(rec, item) ==
    IF item.energy = E10 THEN [rec EXCEPT !.flux_gt10mev = item.flux]
    ELSE IF item.energy = E100 THEN [rec EXCEPT !.flux_gt100mev = item.flux]
    ELSE IF item.energy = E50 THEN [rec EXCEPT !.flux_gt50mev = item.flux]
    ELSE IF item.energy = E500 THEN [rec EXCEPT !.flux_gt500mev = item.flux]
    ELSE rec

\* the for loop over required_data: mqtt_record is never cleared; a ">=500 MeV"
\* sample stamps it and pushes a copy
RECURSIVE FluxCollect(_, _, _, _)
FluxCollect(required_data, i, mqtt_record, flux_records) ==
    IF i > Len(required_data) THEN Ok(flux_records)
    ELSE LET item == required_data[i]
             rec  == flux_store(mqtt_record, item)
         IN  IF item.energy = E500
             THEN LET t == convert_datetime(item.time_tag, FmtIso, 0)
                  IN  IF t.tag # "Ok" THEN t
                      ELSE LET stamped == [rec EXCEPT !.time_tag = t.val]
                           IN  FluxCollect(required_data, i + 1, stamped,
                                           Append(flux_records, stamped))
             ELSE FluxCollect(required_data, i + 1, rec, flux_records)

converter_flux(raw) ==
    IF ~raw.wellformed THEN Err("deserilisation error")
    ELSE LET flux_window == num_records * 4
             start == start_index(Len(raw.rows), flux_window)
             required_data == SubSeq(raw.rows, start + 1, Len(raw.rows))
         IN  FluxCollect(required_data, 1, EmptyFluxRecord, <<>>)

----------------------------------------------------------------------------
(* Inputs of converter_flux *)

MaxFluxExtra == 1     \* samples ahead of the trailing window

FluxWindow == num_records * 4

\* the i-th sample of a feed: its own flux and its own instant
Sample(i, e) == [time_tag |-> TsIso(i, (5 * i) % 24, 10, 0), flux |-> i, energy |-> e]

\* ahead of the window: an emitting and a non-emitting band
PrefixBands == {E10, E500}

FluxFeeds(n) ==
    IF n <= FluxWindow THEN [1..n -> Bands]
    ELSE {f \in [1..n -> Bands] : \A i \in 1..(n - FluxWindow) : f[i] \in PrefixBands}

FluxInput(f) == [wellformed |-> TRUE, rows |-> [i \in 1..Len(f) |-> Sample(i, f[i])]]

\* a ">=500 MeV" sample whose time_tag is not in the format; a label of no band
FluxBadStamp == [wellformed |-> TRUE,
                 rows |-> <<Sample(1, E10), [Sample(2, E500) EXCEPT !.time_tag = Junk]>>]
FluxOddBand  == [wellformed |-> TRUE,
                 rows |-> <<Sample(1, ">=1 MeV"), Sample(2, E500)>>]

InitFlux ==
    /\ feed = "flux"
    /\ \/ input \in {NotJson, FluxBadStamp, FluxOddBand}
       \/ \E n \in 0..(FluxWindow + MaxFluxExtra) : \E f \in FluxFeeds(n) :
             input = FluxInput(f)
    /\ pc = "call"
    /\ result = NoResult
    /\ ForecastIdle
    /\ NoTasks

ConvertFlux ==
    /\ feed = "flux"
    /\ pc = "call"
    /\ result' = converter_flux(input)
    /\ pc' = "done"
    /\ UNCHANGED <<feed, input, table, dates, results, cur, idx, nrows, owner, covered, taskvars>>

NextFlux == ConvertFlux

SpecFlux == InitFlux /\ [][NextFlux]_vars

----------------------------------------------------------------------------
(* The forecast bulletin: text of the date keys *)

SP == <<32>>                        \* " "

MonthMay == <<77, 97, 121>>         \* "May"
MonthJun == <<74, 117, 110>>        \* "Jun"
Day01    == <<48, 49>>              \* "01"
Day31    == <<51, 49>>              \* "31"
Year2024 == <<50, 48, 50, 52>>      \* "2024"

\* String::cmp: byte-wise lexicographic order
StrLess(a, b) ==
    \E k \in 1..(Min(Len(a), Len(b)) + 1) :
        /\ \A j \in 1..(k - 1) : a[j] = b[j]
        /\ k <= Len(b)
        /\ (k <= Len(a) => a[k] < b[k])

\* parse_date: alpha1, space1, digit1 and format!("{} {}", month, day)
parse_date(tok) == tok.month \o SP \o tok.day

\* parse_header: take_until(header) and tag(header) need the phrase; the year is
\* the last blank-separated word of the rest of the header line; many1 needs one
\* date at least; every date gets " <year>" appended
parse_header(sec) ==
    IF ~sec.found THEN Err("TakeUntil")
    ELSE IF Len(sec.dates) = 0 THEN Err("Many1")
    ELSE LET year == SP \o sec.title[Len(sec.title)]
         IN  Ok([i \in 1..Len(sec.dates) |-> parse_date(sec.dates[i]) \o year])

\* InsertByDate that puts an element ahead of the elements of its own date
RECURSIVE InsertAheadOfEqual(_, _)
InsertAheadOfEqual(sorted, e) ==
    IF sorted = <<>> THEN <<e>>
    ELSE IF ~StrLess(Last(sorted).date, e.date)
         THEN Append(InsertAheadOfEqual(SubSeq(sorted, 1, Len(sorted) - 1), e),
                     Last(sorted))
         ELSE Append(sorted, e)

\* slice::sort_by(|a, b| a.date.cmp(&b.date)) is a stable sort: an element goes
\* behind every element whose date is not greater than its own
RECURSIVE InsertByDate(_, _)
InsertByDate(sorted, e) ==
    IF sorted = <<>> THEN <<e>>
    ELSE IF StrLess(e.date, Last(sorted).date)
         THEN Append(InsertByDate(SubSeq(sorted, 1, Len(sorted) - 1), e), Last(sorted))
         ELSE Append(sorted, e)

RECURSIVE sort_by_date(_)
sort_by_date(v) ==
    IF v = <<>> THEN <<>>
    ELSE InsertByDate(sort_by_date(SubSeq(v, 1, Len(v) - 1)), Last(v))

\* u8::from_str(digits).unwrap() succeeds up to 255
U8Max == 255

----------------------------------------------------------------------------
(* parse_kp_forecast: the Kp table of the bulletin *)

\* kp_entry with the start of the interval as the hour
kp_entry_start(date, row, c) ==
    [date |-> date, hour |-> row.start, value |-> row.vals[c]]

\* the KPForecast pushed for the c-th value of a row: hour is time_range_end
kp_entry(date, row, c) ==
    [date |-> date, hour |-> row.end, value |-> row.vals[c]]

\* the double loop over rows and their values, row by row and column by column:
\* dates[index] is out of range for a value beyond the last date column
RECURSIVE KpfCollect(_, _, _, _, _)
KpfCollect(hdates, rows, r, c, acc) ==
    IF r > Len(rows) THEN Ok(acc)
    ELSE IF c > Len(rows[r].vals) THEN KpfCollect(hdates, rows, r + 1, 1, acc)
    ELSE IF c > Len(hdates) THEN Panic("index out of bounds")
    ELSE KpfCollect(hdates, rows, r, c + 1,
                    Append(acc, kp_entry(hdates[c], rows[r], c)))

\* the entries in the order the loops push them, before the sort
kp_unsorted(hdates, rows) == KpfCollect(hdates, rows, 1, 1, <<>>)

parse_kp_forecast(sec) ==
    LET h == parse_header(sec)
    IN  IF h.tag # "Ok" THEN h
        ELSE IF Len(sec.rows) = 0 THEN Err("Many1")
        ELSE IF \E r \in 1..Len(sec.rows) :
                    sec.rows[r].start > U8Max \/ sec.rows[r].end > U8Max
        THEN Panic("unwrap on an Err value")
        ELSE LET u == kp_unsorted(h.val, sec.rows)
             IN  IF u.tag # "Ok" THEN u ELSE Ok(sort_by_date(u.val))

\* .finish().expect("Failed to parse text") of parse_sw_forecast
expect(r) == IF r.tag = "Err" THEN Panic("Failed to parse text") ELSE r

----------------------------------------------------------------------------
(* Inputs of the bulletin tables *)

MaxDates   == 2
MaxKpfRows == 2

DateTokens == {[month |-> MonthMay, day |-> Day31], [month |-> MonthJun, day |-> Day01]}

HeaderTitle == <<MonthMay, Day31, Year2024>>

DateHeaders == UNION {[1..n -> DateTokens] : n \in 0..MaxDates}

\* the blank-separated hour labels of a row, and the first value of a row
HourLabels == {<<0, 3>>, <<21, 0>>, <<2, 5>>, <<297, 300>>}
KpBases    == {100, 467}

\* a row of n values, all different: base, base + 33, ...
KpfRow(hours, base, n) ==
    [start |-> hours[1], end |-> hours[2], vals |-> [i \in 1..n |-> base + 33 * (i - 1)]]

\* rows of one value less than, as many as, and one more than the date columns
RowLengths(ncols) == {n \in {ncols - 1, ncols, ncols + 1} : n >= 1}

KpfRows(ncols) ==
    {KpfRow(hl, b, n) : hl \in HourLabels, b \in KpBases, n \in RowLengths(ncols)}

Section(found, ds, rows) ==
    [found |-> found, title |-> HeaderTitle, dates |-> ds, rows |-> rows]

InitKpForecast ==
    /\ feed = "forecast"
    /\ table = "kp"
    /\ \/ input = Section(FALSE, <<>>, <<>>)
       \/ \E ds \in DateHeaders : \E n \in 0..MaxKpfRows :
             \E rows \in [1..n -> KpfRows(Len(ds))] : input = Section(TRUE, ds, rows)
    /\ pc = "call"
    /\ result = NoResult
    /\ dates = <<>>
    /\ results = <<>>
    /\ cur = <<>>
    /\ idx = 0
    /\ nrows = 0
    /\ owner = <<>>
    /\ covered = {}
    /\ NoTasks

\* line 200 of parse_sw_forecast
ParseKpForecast ==
    /\ feed = "forecast"
    /\ table = "kp"
    /\ pc = "call"
    /\ result' = expect(parse_kp_forecast(input))
    /\ pc' = "done"
    /\ UNCHANGED <<feed, input, table, dates, results, cur, idx, nrows, owner, covered, taskvars>>

----------------------------------------------------------------------------
(* parse_srs_rb_forecast: the storm tables of the bulletin *)

\* parse_solar_rb_storms with "or greater" taken as the stated grade alone
parse_solar_rb_storms_min_only(row) ==
    IF row.greater THEN <<row.min, row.min>> ELSE <<row.min, row.max>>

\* parse_solar_rb_storms: "<L><min> or greater" gives max = min + 1 capped at 5,
\* "<L><min>-<L><max>" gives the stated max
parse_solar_rb_storms(row) ==
    LET s_min == row.min
        capped == IF s_min + 1 > 5 THEN 5 ELSE s_min + 1
    IN  IF row.greater THEN <<s_min, capped>> ELSE <<s_min, row.max>>

\* parse_srs_rb_row: the grades and the percentages of one row
parse_srs_rb_row(row) ==
    LET g == parse_solar_rb_storms(row)
    IN  [text |-> row, s_min |-> g[1], s_max |-> g[2], values |-> row.vals]

NewEntry(date) == [date |-> date, s1 |-> 0, s2 |-> 0, s3 |-> 0, s4 |-> 0, s5 |-> 0]

\* rfind that finds nothing
rfind_none(v, date) == 0

\* results.iter_mut().rfind(|v| &v.date == date): the last position, 0 for None
rfind(v, date) ==
    IF \E k \in 1..Len(v) : v[k].date = date
    THEN CHOOSE k \in 1..Len(v) :
            /\ v[k].date = date
            /\ \A j \in (k + 1)..Len(v) : v[j].date # date
    ELSE 0

\* *srs_vec[si] = value, srs_vec = [s1, s2, s3, s4, s5] and si counted from 0
set_grade(e, si, value) ==
    CASE si = 0 -> [e EXCEPT !.s1 = value]
      [] si = 1 -> [e EXCEPT !.s2 = value]
      [] si = 2 -> [e EXCEPT !.s3 = value]
      [] si = 3 -> [e EXCEPT !.s4 = value]
      [] si = 4 -> [e EXCEPT !.s5 = value]

\* grade_range with the inclusive upper end of `..='
grade_range_inclusive(s_min, s_max) == {si \in 0..4 : s_min - 1 <= si /\ si <= s_max}

\* the values si of the loop `for si in (s_min - 1)..s_max'
grade_range(s_min, s_max) == {si \in 0..4 : s_min - 1 <= si /\ si < s_max}

\* the two assert! with the check of s_max left out
assert_grades_min_only(s_min, s_max) == s_min >= 1 /\ s_min <= 5

\* assert!(s_min >= 1 && s_min <= 5); assert!(s_max >= 1 && s_max <= 5);
assert_grades(s_min, s_max) == s_min >= 1 /\ s_min <= 5 /\ s_max >= 1 /\ s_max <= 5

\* the loop over si on one entry
RECURSIVE write_grades(_, _, _)
write_grades(e, sis, value) ==
    IF sis = {} THEN e
    ELSE LET si == CHOOSE x \in sis : \A y \in sis : x <= y
         IN  write_grades(set_grade(e, si, value), sis \ {si}, value)

\* the field s<g> of an entry
Grade(e, g) ==
    CASE g = 1 -> e.s1 [] g = 2 -> e.s2 [] g = 3 -> e.s3 [] g = 4 -> e.s4 [] g = 5 -> e.s5

NoOwner == [g \in 1..5 |-> 0]

----------------------------------------------------------------------------
(* Inputs and steps of the storm tables *)

MaxStormRows == 2

\* "<L>1 or greater", "<L>1-<L>3", "<L>1-<L>2", "<L>3 or greater", "<L>5 or greater",
\* and rows whose grades leave 1..5 or descend
GradeTexts ==
    {[min |-> 1, greater |-> TRUE,  max |-> 0], [min |-> 1, greater |-> FALSE, max |-> 3],
     [min |-> 1, greater |-> FALSE, max |-> 2], [min |-> 3, greater |-> TRUE,  max |-> 0],
     [min |-> 5, greater |-> TRUE,  max |-> 0], [min |-> 0, greater |-> FALSE, max |-> 2],
     [min |-> 4, greater |-> FALSE, max |-> 6], [min |-> 6, greater |-> TRUE,  max |-> 0],
     [min |-> 3, greater |-> FALSE, max |-> 1]}

PercentBases == {5, 40}

\* a row of n percentages, all different: base, base + 10, ...
StormRow(gt, base, n) ==
    [min |-> gt.min, greater |-> gt.greater, max |-> gt.max,
     vals |-> [i \in 1..n |-> base + 10 * (i - 1)]]

StormRows(ncols) ==
    {StormRow(gt, b, n) : gt \in GradeTexts, b \in PercentBases, n \in RowLengths(ncols)}

\* the header of a storm table; its rows are not part of `input': NextStormRow
\* takes them one at a time, as the outer loop of the merge does
InitStorm ==
    /\ feed = "forecast"
    /\ table \in {"srs", "rb"}
    /\ \/ input = Section(FALSE, <<>>, <<>>)
       \/ \E ds \in DateHeaders : input = Section(TRUE, ds, <<>>)
    /\ pc = "header"
    /\ result = NoResult
    /\ dates = <<>>
    /\ results = <<>>
    /\ cur = <<>>
    /\ idx = 0
    /\ nrows = 0
    /\ owner = <<>>
    /\ covered = {}
    /\ NoTasks

\* parse_header of parse_srs_rb_forecast; an Err reaches expect in parse_sw_forecast
ParseStormHeader ==
    /\ feed = "forecast"
    /\ table \in {"srs", "rb"}
    /\ pc = "header"
    /\ LET h == parse_header(input)
       IN  IF h.tag = "Ok"
           THEN /\ dates' = h.val
                /\ pc' = "rows"
                /\ UNCHANGED result
           ELSE /\ result' = expect(h)
                /\ pc' = "done"
                /\ UNCHANGED dates
    /\ UNCHANGED <<feed, input, table, results, cur, idx, nrows, owner, covered, taskvars>>

\* many1 of parse_srs_rb_row found no row at all
NoStormRow ==
    /\ feed = "forecast"
    /\ pc = "rows"
    /\ nrows = 0
    /\ result' = expect(Err("Many1"))
    /\ pc' = "done"
    /\ UNCHANGED <<feed, input, table, dates, results, cur, idx, nrows, owner, covered, taskvars>>

\* the outer loop takes the next row many1 returned
NextStormRow ==
    /\ feed = "forecast"
    /\ pc = "rows"
    /\ nrows < MaxStormRows
    /\ \E row \in StormRows(Len(dates)) :
          cur' = parse_srs_rb_row(row)
    /\ idx' = 1
    /\ pc' = "merge"
    /\ UNCHANGED <<feed, input, table, dates, result, results, nrows, owner, covered, taskvars>>

\* one pass of the inner loop: dates[index], find or create, the two assert!, the
\* writes; the last value of the row ends the row
MergeColumn ==
    /\ feed = "forecast"
    /\ pc = "merge"
    /\ IF idx > Len(dates)
       THEN /\ result' = Panic("index out of bounds")
            /\ pc' = "done"
            /\ UNCHANGED <<results, owner, idx, nrows, covered>>
       ELSE LET date  == dates[idx]
                found == rfind(results, date)
                k     == IF found = 0 THEN Len(results) + 1 ELSE found
                with  == IF found = 0 THEN Append(results, NewEntry(date)) ELSE results
                own   == IF found = 0 THEN Append(owner, NoOwner) ELSE owner
            IN  IF ~assert_grades(cur.s_min, cur.s_max)
                THEN /\ result' = Panic("assertion failed")
                     /\ pc' = "done"
                     /\ results' = with
                     /\ owner' = own
                     /\ UNCHANGED <<idx, nrows, covered>>
                ELSE /\ results' = [with EXCEPT ![k] =
                            write_grades(@, grade_range(cur.s_min, cur.s_max),
                                         cur.values[idx])]
                     /\ owner' = [own EXCEPT ![k] =
                            [g \in 1..5 |-> IF (g - 1) \in grade_range(cur.s_min, cur.s_max)
                                            THEN nrows + 1 ELSE @[g]]]
                     /\ IF idx < Len(cur.values)
                        THEN /\ idx' = idx + 1
                             /\ UNCHANGED <<pc, nrows, covered>>
                        ELSE /\ idx' = 0
                             /\ nrows' = nrows + 1
                             /\ covered' = covered \cup
                                    {g \in 1..5 : cur.s_min <= g /\ g <= cur.s_max}
                             /\ pc' = "rows"
                     /\ UNCHANGED result
    /\ UNCHANGED <<feed, input, table, dates, cur, taskvars>>

\* the rows are used up: sort and return
FinishStorm ==
    /\ feed = "forecast"
    /\ pc = "rows"
    /\ nrows >= 1
    /\ results' = sort_by_date(results)
    /\ result' = Ok(results')
    /\ pc' = "done"
    /\ UNCHANGED <<feed, input, table, dates, cur, idx, nrows, owner, covered, taskvars>>

InitForecast == InitKpForecast \/ InitStorm

NextForecast ==
    \/ ParseKpForecast
    \/ ParseStormHeader
    \/ NoStormRow
    \/ NextStormRow
    \/ MergeColumn
    \/ FinishStorm

SpecForecast == InitForecast /\ [][NextForecast]_vars

----------------------------------------------------------------------------
(* The polling tasks of main.rs: one task per weather source *)

\* mqtt_topic_name of the four elements of weather_sources
Feeds == {"noaa_kp", "noaa_kp_inst", "noaa_flux", "noaa_sw_forecast"}

\* load_text and send_to_broker return Ok or Err; (source.convert)(raw_data)
\* returns Ok or Err, or panics
IoOutcomes      == {"Ok", "Err"}
ConvertOutcomes == {"Ok", "Err", "Panic"}

\* after_provide that goes on with the loop whatever provide returned
after_provide_retry(r) == "tick"

\* provide(&ws).await.expect(..) in the loop of start_task: Ok goes back to
\* interval.tick(), anything else panics inside the spawned task, which ends it
after_provide(r) == IF r = "Ok" THEN "tick" ELSE "ended"

\* the tasks whose loop has ended
Ended == {g \in Feeds : tpc[g] = "ended"}

\* the state after main has spawned the four tasks
InitTasks ==
    /\ feed = "tasks"
    /\ input = <<>>
    /\ pc = "idle"
    /\ result = NoResult
    /\ ForecastIdle
    /\ tpc = [f \in Feeds |-> "tick"]
    /\ client = "free"
    /\ cycle = [f \in Feeds |-> <<>>]
    /\ converted = [f \in Feeds |-> "None"]
    /\ sent = [f \in Feeds |-> 0]
    /\ cause = [f \in Feeds |-> "none"]
    /\ began = [f \in Feeds |-> FALSE]

convvars == <<feed, input, pc, result, table, dates, results, cur, idx, nrows, owner,
              covered>>

\* interval.tick().await returns: a cycle begins
Tick(f) ==
    /\ tpc[f] = "tick"
    /\ tpc' = [tpc EXCEPT ![f] = "load"]
    /\ cycle' = [cycle EXCEPT ![f] = <<"tick">>]
    /\ converted' = [converted EXCEPT ![f] = "None"]
    /\ sent' = [sent EXCEPT ![f] = 0]
    /\ began' = [began EXCEPT ![f] = (Ended # {})]
    /\ UNCHANGED <<client, cause, convvars>>

\* self.load_text(source).await.map_err(..)? of provide
LoadText(f) ==
    /\ tpc[f] = "load"
    /\ \E r \in IoOutcomes :
          /\ tpc' = [tpc EXCEPT ![f] = IF r = "Ok" THEN "convert" ELSE after_provide(r)]
          /\ cause' = [cause EXCEPT ![f] = IF r = "Ok" THEN @ ELSE "fetch"]
    /\ cycle' = [cycle EXCEPT ![f] = Append(@, "fetch")]
    /\ UNCHANGED <<client, converted, sent, began, convvars>>

\* (source.convert)(raw_data)? of provide: an Err is returned by provide, a panic
\* unwinds the task
Convert(f) ==
    /\ tpc[f] = "convert"
    /\ \E r \in ConvertOutcomes :
          /\ converted' = [converted EXCEPT ![f] = r]
          /\ tpc' = [tpc EXCEPT ![f] = IF r = "Ok" THEN "send" ELSE after_provide(r)]
          /\ cause' = [cause EXCEPT ![f] =
                          IF r = "Ok" THEN @ ELSE IF r = "Err" THEN "convert" ELSE "abort"]
    /\ cycle' = [cycle EXCEPT ![f] = Append(@, "convert")]
    /\ UNCHANGED <<client, sent, began, convvars>>

\* self.client.lock() of send_to_broker: waits for the mutex
LockClient(f) ==
    /\ tpc[f] = "send"
    /\ client = "free"
    /\ client' = f
    /\ tpc' = [tpc EXCEPT ![f] = "publish"]
    /\ UNCHANGED <<cycle, converted, sent, cause, began, convvars>>

\* mut_client.publish(..).map_err(..): the guard is dropped when send_to_broker
\* returns, ahead of the expect of start_task
Publish(f) ==
    /\ tpc[f] = "publish"
    /\ client = f
    /\ \E r \in IoOutcomes :
          /\ sent' = [sent EXCEPT ![f] = IF r = "Ok" THEN @ + 1 ELSE @]
          /\ tpc' = [tpc EXCEPT ![f] = after_provide(r)]
          /\ cause' = [cause EXCEPT ![f] = IF r = "Ok" THEN @ ELSE "publish"]
    /\ client' = "free"
    /\ cycle' = [cycle EXCEPT ![f] = Append(@, "publish")]
    /\ UNCHANGED <<converted, began, convvars>>

\* the body of the task of one weather source
TaskStep(f) ==
    \/ Tick(f)
    \/ LoadText(f)
    \/ Convert(f)
    \/ LockClient(f)
    \/ Publish(f)

NextTasks == \E f \in Feeds : TaskStep(f)

\* the runtime polls every task that can go on, the interval fires again and
\* again, and the awaited calls return; a task waiting for the mutex gets it,
\* since a holder gives it back within the call and waits a whole interval before
\* it asks again: a task that can go on again and again does go on
FairTasks == \A f \in Feeds : SF_vars(TaskStep(f))

SpecTasks == InitTasks /\ [][NextTasks]_vars /\ FairTasks

----------------------------------------------------------------------------
(* Properties of the JSON converters *)

\* C1: every failure of a conversion entry point is returned to the caller as an
\* error value: whatever the input (a Kp table with no row at all included), a
\* finished call ended in Ok(text) or Err(message), never in an abort.
C1_FailuresAreReturned ==
    pc = "done" => result.tag \in {"Ok", "Err"}

\* C2: whatever the samples, converter_flux outputs at most 2 records.
C2_AtMostTwoRecords ==
    (feed = "flux" /\ pc = "done" /\ result.tag = "Ok") => Len(result.val) <= 2

C3_WellFormed(item) == Len(item) >= 2 /\ item[1].kind = "ts_ms"

\* the record of a well-formed row: the interval's end (start + 3 h) as
\* <<hour, minute, day>>, and the Kp value (0.0 for a cell that is no number)
C3_Record(item) ==
    [time_tag |-> <<(item[1].h + 3) % 24, item[1].mi,
                    IF item[1].h + 3 >= 24 THEN item[1].d + 1 ELSE item[1].d>>,
     kp |-> IF item[2].kind = "num" THEN item[2].v ELSE 0]

C3_AllWellFormed ==
    /\ feed = "kp"
    /\ input.wellformed
    /\ Len(input.rows) >= 1
    /\ \A r \in 2..Len(input.rows) : C3_WellFormed(input.rows[r])

\* C3: for a header row followed by k well-formed data rows, converter_kp outputs
\* exactly min(k, 7) records, those of the last min(k, 7) data rows, oldest first.
C3_WindowedKpSelection ==
    (pc = "done" /\ C3_AllWellFormed) =>
        LET k == Len(input.rows) - 1
            n == Min(k, 7)
        IN  /\ result.tag = "Ok"
            /\ Len(result.val) = n
            /\ \A i \in 1..n : result.val[i] = C3_Record(input.rows[1 + (k - n) + i])

\* 8 data rows: the first is dropped, the output starts with the second
C3_Witness ==
    /\ pc = "done"
    /\ C3_AllWellFormed
    /\ Len(input.rows) = 9
    /\ input.rows[2] = KpRowA
    /\ input.rows[3] = KpRowB
    /\ result.tag = "Ok"
    /\ Len(result.val) = 7
    /\ result.val[1] = [time_tag |-> <<0, 30, 2>>, kp |-> 0]

\* the trailing window of 8 samples
C4_Window ==
    LET n == Len(input.rows)
    IN  SubSeq(input.rows, (IF n > 8 THEN n - 8 ELSE 0) + 1, n)

\* the position in w of the j-th ">=500 MeV" sample
C4_Emitter(w, j) ==
    CHOOSE i \in 1..Len(w) :
        /\ w[i].energy = E500
        /\ Cardinality({p \in 1..i : w[p].energy = E500}) = j

\* the flux of the most recent sample of a band before position i, 0.0 if none
C4_Latest(w, i, band) ==
    LET ps == {p \in 1..(i - 1) : w[p].energy = band}
    IN  IF ps = {} THEN 0
        ELSE w[CHOOSE p \in ps : \A q \in ps : q <= p].flux

C4_Cyclic == <<E10, E50, E100, E500, E10, E50, E100, E500>>

C4_Stampable ==
    /\ feed = "flux"
    /\ input.wellformed
    /\ \A i \in 1..Len(C4_Window) :
          C4_Window[i].energy = E500 => C4_Window[i].time_tag.kind = "ts_iso"

\* C4: every record converter_flux emits is emitted at a ">=500 MeV" sample of the
\* trailing 8-sample window, carries that sample's flux and timestamp, and holds
\* for each other band the flux of the most recent sample of that band earlier in
\* the window (0.0 if none); 8 samples in the cyclic order yield exactly 2 records,
\* each populated from its own quadruple.
C4_FluxAggregation ==
    (pc = "done" /\ C4_Stampable) =>
        LET w == C4_Window
            m == Cardinality({p \in 1..Len(w) : w[p].energy = E500})
        IN  /\ result.tag = "Ok"
            /\ Len(result.val) = m
            /\ \A j \in 1..m :
                  LET i == C4_Emitter(w, j)
                      rec == result.val[j]
                  IN  /\ rec.flux_gt500mev = w[i].flux
                      /\ rec.time_tag = <<w[i].time_tag.h, w[i].time_tag.mi, w[i].time_tag.d>>
                      /\ rec.flux_gt10mev = C4_Latest(w, i, E10)
                      /\ rec.flux_gt50mev = C4_Latest(w, i, E50)
                      /\ rec.flux_gt100mev = C4_Latest(w, i, E100)
            /\ (Len(w) = 8 /\ \A i \in 1..8 : w[i].energy = C4_Cyclic[i]) =>
                  /\ Len(result.val) = 2
                  /\ \A q \in 1..2 :
                        /\ result.val[q].flux_gt10mev = w[4 * q - 3].flux
                        /\ result.val[q].flux_gt50mev = w[4 * q - 2].flux
                        /\ result.val[q].flux_gt100mev = w[4 * q - 1].flux
                        /\ result.val[q].flux_gt500mev = w[4 * q].flux

\* 9 samples, the last 8 in the cyclic order: 2 records, the second one of
\* samples 6..9 and stamped by sample 9
C4_Witness ==
    /\ feed = "flux"
    /\ pc = "done"
    /\ Len(input.rows) = 9
    /\ input.rows[1].energy = E500
    /\ \A i \in 1..8 : input.rows[i + 1].energy = C4_Cyclic[i]
    /\ result.tag = "Ok"
    /\ result.val = << [time_tag |-> <<1, 10, 5>>, flux_gt10mev |-> 2, flux_gt50mev |-> 3,
                        flux_gt100mev |-> 4, flux_gt500mev |-> 5],
                       [time_tag |-> <<21, 10, 9>>, flux_gt10mev |-> 6, flux_gt50mev |-> 7,
                        flux_gt100mev |-> 8, flux_gt500mev |-> 9] >>

\* the data rows of a Kp table, and the positions of those the window retains
C11_Data == SubSeq(input.rows, 2, Len(input.rows))

C11_Retained ==
    LET k == Len(C11_Data)
    IN  {i \in 1..k : i > k - 7}

C11_TooShort(item) == Len(item) < 2
C11_BadStamp(item) == Len(item) >= 2 /\ item[1].kind # "ts_ms"

\* C11: for a Kp table with a header row, converter_kp fails if and only if one of
\* the trailing 7 data rows has fewer than 2 cells or a timestamp that is not in
\* the format, and then it returns the error of the first such row; a row the
\* window drops never makes it fail; a Kp cell that spells no number never makes
\* it fail, the record of its row has kp = 0.0.
C11_FailsOnlyOnRetainedRows ==
    (feed = "kp" /\ pc = "done" /\ input.wellformed /\ Len(input.rows) >= 1) =>
        LET data == C11_Data
            k    == Len(data)
            bad  == {i \in C11_Retained : C11_TooShort(data[i]) \/ C11_BadStamp(data[i])}
        IN  /\ result.tag \in {"Ok", "Err"}
            /\ result.tag = "Err" <=> bad # {}
            /\ bad # {} =>
                  LET first == CHOOSE i \in bad : \A j \in bad : i <= j
                  IN  result.msg = IF C11_TooShort(data[first])
                                   THEN "error during parsing data"
                                   ELSE "parsing datetime string error"
            /\ result.tag = "Ok" =>
                  /\ Len(result.val) = Cardinality(C11_Retained)
                  /\ \A i \in C11_Retained :
                        data[i][2].kind # "num" =>
                            result.val[i - (k - Cardinality(C11_Retained))].kp = 0

\* 8 data rows: the first has one cell and is dropped, the last has a Kp cell that
\* spells no number; the call succeeds and the last record has kp = 0.0
C11_Witness ==
    /\ feed = "kp"
    /\ pc = "done"
    /\ Len(input.rows) = 9
    /\ input.rows[2] = KpRowShort
    /\ input.rows[9] = KpRowB
    /\ result.tag = "Ok"
    /\ Len(result.val) = 7
    /\ result.val[7] = [time_tag |-> <<0, 30, 2>>, kp |-> 0]

\* the record of one sample: its kp_index, and its instant as <<hour, minute, day>>
C12_Record(sample) ==
    [time_tag |-> <<sample.time_tag.h, sample.time_tag.mi, sample.time_tag.d>>,
     kp |-> sample.kp_index]

\* C12: for a sample sequence that is not empty, converter_kp_inst outputs a single
\* record, that of the final element (its kp_index and its normalized time_tag),
\* whatever the elements before it are; a final element whose time_tag is not in
\* the format of the feed gives the error of the timestamp normalizer; an empty
\* sequence gives an error and no record.
C12_LatestSampleOnly ==
    (feed = "kp_inst" /\ pc = "done" /\ input.wellformed) =>
        LET n == Len(input.rows)
        IN  /\ n = 0 => result = Err("got no data")
            /\ (n > 0 /\ input.rows[n].time_tag.kind = "ts_iso") =>
                  result = Ok(C12_Record(input.rows[n]))
            /\ (n > 0 /\ input.rows[n].time_tag.kind # "ts_iso") =>
                  result = Err("parsing datetime string error")

\* three samples, the first two of other instants and values (the second with a
\* time_tag that is no timestamp): the record is that of the third alone
C12_Witness ==
    /\ feed = "kp_inst"
    /\ pc = "done"
    /\ Len(input.rows) = 3
    /\ input.rows[1] = [time_tag |-> TsIso(2, 0, 1, 0), kp_index |-> 467]
    /\ input.rows[2] = [time_tag |-> Junk, kp_index |-> 100]
    /\ input.rows[3] = [time_tag |-> TsIso(1, 23, 55, 30), kp_index |-> 233]
    /\ result = Ok([time_tag |-> <<23, 55, 1>>, kp |-> 233])

----------------------------------------------------------------------------
(* Properties of the storm tables *)

StormTable == feed = "forecast" /\ table \in {"srs", "rb"}

\* a step of MergeColumn that passed dates[index] and the two assert!
C5_ColumnMerged == StormTable /\ pc = "merge" /\ pc' # "done"

\* the maximum grade the text of a row states
C5_Max(text) == IF text.greater THEN Min(text.min + 1, 5) ELSE text.max

\* the position of the entry of a date
C5_EntryOf(v, date) == CHOOSE k \in 1..Len(v) : v[k].date = date

\* C5: merging a row of minimum grade a and maximum grade b (the stated maximum, or
\* min(a + 1, 5) for " or greater") sets, for date column i, exactly the fields
\* s_a..s_b of the entry of date i to the i-th percentage, and leaves every other
\* field of that entry, and every other entry, as it was (0 in a new entry).
C5_StormRowEffect ==
    [][C5_ColumnMerged =>
        LET a == cur.text.min
            b == C5_Max(cur.text)
            date == dates[idx]
            isNew == \A j \in 1..Len(results) : results[j].date # date
            k == IF isNew THEN Len(results) + 1 ELSE C5_EntryOf(results, date)
        IN  /\ Len(results') = IF isNew THEN Len(results) + 1 ELSE Len(results)
            /\ results'[k].date = date
            /\ \A g \in 1..5 :
                  Grade(results'[k], g) =
                      IF a <= g /\ g <= b THEN cur.text.vals[idx]
                      ELSE IF isNew THEN 0 ELSE Grade(results[k], g)
            /\ \A j \in 1..Len(results) : j # k => results'[j] = results[j]
    ]_vars

\* "<L>1-<L>3 40%" and then "<L>1 or greater 5%" on one date: s3 keeps the 40 of
\* the first row, s1 and s2 hold the 5 of the second, s4 and s5 are untouched
C5_Witness ==
    /\ StormTable
    /\ pc = "rows"
    /\ nrows = 2
    /\ cur.text = [min |-> 1, greater |-> TRUE, max |-> 0, vals |-> <<5>>]
    /\ Len(results) = 1
    /\ results[1].s1 = 5 /\ results[1].s2 = 5 /\ results[1].s3 = 40
    /\ results[1].s4 = 0 /\ results[1].s5 = 0

\* the fields a row earlier than the current one has set
C6_SetEarlier(k, g) == owner[k][g] # 0 /\ owner[k][g] # nrows + 1

\* C6 (as stated): whatever rows the parser accepts, a later row never overwrites
\* a grade field of a date's entry that an earlier row of the table has set.
C6_NeverOverwrites ==
    [][StormTable =>
        \A k \in 1..Len(owner) : \A g \in 1..5 :
            C6_SetEarlier(k, g) => owner'[k][g] = owner[k][g]
    ]_vars

\* C6 (amended): a row whose grade range shares no grade with the ranges of the
\* rows before it overwrites no field an earlier row has set; a row that does
\* share grades overwrites such a field only inside its own range [min, max].
C6_DisjointRowsNeverOverwrite ==
    [][StormTable =>
        \A k \in 1..Len(owner) : \A g \in 1..5 :
            (C6_SetEarlier(k, g) /\ owner'[k][g] # owner[k][g]) =>
                /\ pc = "merge"
                /\ g \in covered
                /\ cur.s_min <= g /\ g <= cur.s_max
                /\ results[k].date = dates[idx]
                /\ owner'[k][g] = nrows + 1
    ]_vars

\* "<L>1-<L>2" then "<L>3 or greater", as in the radio blackout table: the second
\* row is merged and every field still belongs to the row that covers its grade
C6_Witness ==
    /\ StormTable
    /\ pc = "rows"
    /\ nrows = 2
    /\ cur.text.min = 3 /\ cur.text.greater
    /\ covered = {1, 2, 3, 4}
    /\ Len(owner) = 2
    /\ \A k \in 1..2 : owner[k] = <<1, 1, 2, 2, 0>>

\* C7: after the merge of a storm table, whatever the header dates (repeated date
\* tokens included) and the rows, the collection holds exactly one entry per date
\* key: no two entries share a date, every entry is of a header date, and the
\* date of the first column has its entry.
C7_OneEntryPerDate ==
    (StormTable /\ pc = "done" /\ result.tag = "Ok") =>
        /\ \A i, j \in 1..Len(result.val) :
              i # j => result.val[i].date # result.val[j].date
        /\ \A i \in 1..Len(result.val) :
              \E c \in 1..Len(dates) : result.val[i].date = dates[c]
        /\ \E i \in 1..Len(result.val) : result.val[i].date = dates[1]

\* a header that states the same date twice, two rows merged: one entry
C7_Witness ==
    /\ StormTable
    /\ pc = "done"
    /\ result.tag = "Ok"
    /\ Len(dates) = 2
    /\ dates[1] = dates[2]
    /\ nrows = 2
    /\ Len(cur.values) = 2
    /\ Len(result.val) = 1

\* a field of an entry takes a value, or the current row as its writer, in a step
C13_Wrote ==
    \E k \in 1..Len(results') : \E g \in 1..5 :
        \/ Grade(results'[k], g) # (IF k <= Len(results) THEN Grade(results[k], g) ELSE 0)
        \/ owner'[k][g] # (IF k <= Len(owner) THEN owner[k][g] ELSE 0)

\* the minimum and the maximum grade of the row the merge is at are within [1, 5]
C13_InRange ==
    /\ cur.text.min \in 1..5
    /\ C5_Max(cur.text) \in 1..5

\* C13: whenever the merge of a storm table writes a grade field, the minimum and
\* the maximum grade of the row are both within [1, 5]; a row whose minimum or
\* maximum grade is outside [1, 5] aborts the parse at its first percentage, as a
\* panic and not as an error value, and no grade field of any entry has been or
\* is written from that row: the entries that exist stay as they are, and an
\* entry created for the date of that first column has all its grades 0.
C13_GradesAssertedBeforeWrite ==
    [][(StormTable /\ pc = "merge") =>
        /\ C13_Wrote => C13_InRange
        /\ ~C13_InRange =>
              /\ idx = 1
              /\ \A k \in 1..Len(owner) : \A g \in 1..5 : owner[k][g] # nrows + 1
              /\ pc' = "done"
              /\ result'.tag = "Panic"
              /\ Len(results') \in {Len(results), Len(results) + 1}
              /\ \A k \in 1..Len(results) :
                    results'[k] = results[k] /\ owner'[k] = owner[k]
              /\ \A k \in (Len(results) + 1)..Len(results') :
                    /\ results'[k] = NewEntry(dates[1])
                    /\ owner'[k] = NoOwner
    ]_vars

\* "<L>1-<L>3 40%" is merged, then "<L>4-<L>6 ..." aborts the parse: the only entry
\* holds what the first row wrote, s4 and s5 are still 0
C13_Witness ==
    /\ StormTable
    /\ pc = "done"
    /\ result = Panic("assertion failed")
    /\ nrows = 1
    /\ cur.text.min = 4 /\ ~cur.text.greater /\ cur.text.max = 6
    /\ Len(results) = 1
    /\ results[1].s1 = 40 /\ results[1].s2 = 40 /\ results[1].s3 = 40
    /\ results[1].s4 = 0 /\ results[1].s5 = 0
    /\ owner[1] = <<1, 1, 1, 0, 0>>

----------------------------------------------------------------------------
(* Properties of the polling tasks *)

C14_Order == <<"tick", "fetch", "convert", "publish">>

\* the cycle of f failed in this step
C14_Fails(f) == cause[f] = "none" /\ cause'[f] # "none"

----------------------------------------------------------------------------
(* Properties of the Kp table of the bulletin *)

KpTableParsed == feed = "forecast" /\ table = "kp" /\ pc = "done" /\ result.tag = "Ok"

\* the date key of column c: "<Month> <Day> <Year>"
KpColumnKey(c) ==
    input.dates[c].month \o <<32>> \o input.dates[c].day \o <<32>>
        \o input.title[Len(input.title)]

\* C8: with N date columns, every accepted Kp row carries exactly N values, the
\* i-th value of each row is recorded under the i-th date, and the table has
\* exactly (number of rows) x N entries.
C8_RowsCarryNValues ==
    KpTableParsed =>
        LET N == Len(input.dates)
        IN  /\ \A r \in 1..Len(input.rows) : Len(input.rows[r].vals) = N
            /\ Len(result.val) = Len(input.rows) * N
            /\ \A r \in 1..Len(input.rows) : \A c \in 1..Len(input.rows[r].vals) :
                  \E i \in 1..Len(result.val) :
                      /\ result.val[i].date = KpColumnKey(c)
                      /\ result.val[i].value = input.rows[r].vals[c]

\* the entries the rows stand for: value c of row r under date c, at the end of
\* the interval of row r
C9_Entry(r, c) ==
    [date |-> KpColumnKey(c), hour |-> input.rows[r].end, value |-> input.rows[r].vals[c]]

C9_Cells == {rc \in (1..Len(input.rows)) \X (1..Len(input.dates)) :
                rc[2] <= Len(input.rows[rc[1]].vals)}

BlockEndLabels == {0, 3, 6, 9, 12, 15, 18, 21}

\* C9 (as stated): every entry has the interval-end value of its row as its hour,
\* and that hour is one of the 8 block-end labels.
C9_HourIsBlockEndLabel ==
    KpTableParsed =>
        /\ \A i \in 1..Len(result.val) :
              \E rc \in C9_Cells : result.val[i] = C9_Entry(rc[1], rc[2])
        /\ \A i \in 1..Len(result.val) : result.val[i].hour \in BlockEndLabels

\* C9 (amended): every entry has the interval-end value of its row as its hour,
\* whatever number of 0..255 the row states there; every value of every row has
\* its entry.
C9_HourIsIntervalEnd ==
    KpTableParsed =>
        /\ \A i \in 1..Len(result.val) :
              \E rc \in C9_Cells : result.val[i] = C9_Entry(rc[1], rc[2])
        /\ \A rc \in C9_Cells :
              \E i \in 1..Len(result.val) : result.val[i] = C9_Entry(rc[1], rc[2])
        /\ Len(result.val) = Cardinality(C9_Cells)
        /\ \A i \in 1..Len(result.val) : result.val[i].hour \in 0..255

\* a row "02-05UT" is parsed: its entries have hour 5, which is no label
C9_Witness ==
    /\ KpTableParsed
    /\ Len(input.rows) = 2
    /\ input.rows[1].start = 0 /\ input.rows[1].end = 3
    /\ input.rows[2].start = 2 /\ input.rows[2].end = 5
    /\ Len(result.val) = 2
    /\ result.val[1].hour = 3
    /\ result.val[2].hour = 5

----------------------------------------------------------------------------
(* Properties of the three collections *)

\* the entries of row r in column order, and of all rows in bulletin order
RECURSIVE C10_RowMajor(_)
C10_RowMajor(r) ==
    IF r = 0 THEN <<>>
    ELSE C10_RowMajor(r - 1)
         \o [c \in 1..Min(Len(input.rows[r].vals), Len(input.dates)) |-> C9_Entry(r, c)]

\* the elements of a collection that have date d, in their order
C10_OfDate(v, d) == LET Has(e) == e.date = d IN SelectSeq(v, Has)

\* a precedes b, or equals it, byte by byte
C10_StrLeq(a, b) ==
    \/ a = b
    \/ \E k \in 1..Len(b) :
          /\ k - 1 <= Len(a)
          /\ \A j \in 1..(k - 1) : a[j] = b[j]
          /\ (k <= Len(a) => a[k] < b[k])

\* C10: each of the three output collections is sorted ascending by date key
\* under plain string comparison, and the sort is stable: Kp entries of one date
\* keep the order of their rows in the bulletin.
C10_SortedAndStable ==
    (feed = "forecast" /\ pc = "done" /\ result.tag = "Ok") =>
        /\ \A i \in 1..(Len(result.val) - 1) :
              C10_StrLeq(result.val[i].date, result.val[i + 1].date)
        /\ table = "kp" =>
              \A c \in 1..Len(input.dates) :
                  C10_OfDate(result.val, KpColumnKey(c))
                      = C10_OfDate(C10_RowMajor(Len(input.rows)), KpColumnKey(c))

\* header "May 31  Jun 01", rows "00-03UT" and "21-00UT": "Jun 01 2024" sorts
\* ahead of "May 31 2024", and within each date hour 3 stays ahead of hour 0
C10_Witness ==
    /\ KpTableParsed
    /\ Len(input.dates) = 2
    /\ input.dates[1].month = MonthMay
    /\ input.dates[2].month = MonthJun
    /\ Len(result.val) = 4
    /\ [i \in 1..4 |-> result.val[i].hour] = <<3, 0, 3, 0>>
    /\ result.val[1].date = MonthJun \o SP \o Day01 \o SP \o Year2024
    /\ result.val[3].date = MonthMay \o SP \o Day31 \o SP \o Year2024
    /\ result.val[1].value # result.val[2].value

====
